---- MODULE Spec2Model ----
(***************************************************************************)
(* Gmail-Auto-Labeler: main -> authenticate_gmail -> label_emails, with    *)
(* the remote mail service (labels, messages) and the token store as the   *)
(* environment the script talks to.                                        *)
(***************************************************************************)
EXTENDS Integers, Sequences, FiniteSets, TLC

\* ------------------------------------------------------------------ bounds
NumMsgs  == 3   \* messages held by the remote mailbox
PageSize == 2   \* messages the remote service returns on one result page
MaxRules == 2   \* entries of SENDER_LABELS
MaxRuns  == 2   \* invocations of the script, one after the other

\* ------------------------------------------------------------- value sets
Senders    == {"a@x", "b@x"}
LabelNames == {"Alerts", "News"}
Msgs       == 1..NumMsgs
None       == <<>>                 \* an absent key, an absent file
Some(x)    == <<x>>                \* a present one, holding x
EmptyId    == <<>>                 \* a falsy label id
INBOX      == <<"INBOX">>          \* a system label every message carries
UserLabelId(n) == <<"Label", n>>   \* ids the remote service hands out

Min(a, b) == IF a < b THEN a ELSE b

\* ------------------------------------------------------- int(str), Python
\* A string is a sequence of Unicode code points.

\* the code point of digit zero of every decimal-digit block (category Nd);
\* each block holds its ten digits in order
DigitZeros ==
    {
      48, 1632, 1776, 1984, 2406, 2534, 2662, 2790,
      2918, 3046, 3174, 3302, 3430, 3558, 3664, 3792,
      3872, 4160, 4240, 6112, 6160, 6470, 6608, 6784,
      6800, 6992, 7088, 7232, 7248, 42528, 43216, 43264,
      43472, 43504, 43600, 44016, 65296, 66720, 68912, 69734,
      69872, 69942, 70096, 70384, 70736, 70864, 71248, 71360,
      71472, 71904, 72016, 72784, 73040, 73120, 92768, 92864,
      93008, 120782, 120792, 120802, 120812, 120822, 123200, 123632,
      125264, 130032 }

IsDigit(c) == \E z \in DigitZeros : c >= z /\ c <= z + 9
DigitVal(c) == c - (CHOOSE z \in DigitZeros : c >= z /\ c <= z + 9)

\* the characters int() strips from both ends: tab, LF, VT, FF, CR, space,
\* NEL, NBSP and the Unicode space separators
Whitespace ==
    (9..13) \cup {32, 133, 160, 5760} \cup (8192..8202) \cup
    {8232, 8233, 8239, 8287, 12288}

IsSpace(c) == c \in Whitespace

RECURSIVE LStrip(_)
LStrip(s) == IF s # <<>> /\ IsSpace(Head(s)) THEN LStrip(Tail(s)) ELSE s

RECURSIVE RStrip(_)
RStrip(s) ==
    IF s # <<>> /\ IsSpace(s[Len(s)]) THEN RStrip(SubSeq(s, 1, Len(s) - 1)) ELSE s

Strip(s) == RStrip(LStrip(s))

\* a leading "+" (43) or "-" (45)
HasSign(s) == s # <<>> /\ Head(s) \in {43, 45}
Unsigned(s) == IF HasSign(s) THEN Tail(s) ELSE s

\* digits, with single underscores (95) allowed only between two digits
DigitsOk(b) ==
    /\ b # <<>>
    /\ \A i \in 1..Len(b) :
          \/ IsDigit(b[i])
          \/ /\ b[i] = 95
             /\ i > 1 /\ i < Len(b)
             /\ IsDigit(b[i - 1]) /\ IsDigit(b[i + 1])

\* sys.get_int_max_str_digits(): int() refuses longer digit strings
MaxStrDigits == 4300

DigitCount(b) == Cardinality({i \in 1..Len(b) : IsDigit(b[i])})

RECURSIVE DigitsValue(_, _)
DigitsValue(b, acc) ==
    IF b = <<>> THEN acc
    ELSE IF Head(b) = 95 THEN DigitsValue(Tail(b), acc)
    ELSE DigitsValue(Tail(b), 10 * acc + DigitVal(Head(b)))

\* int(s) raises ValueError
IntRaises(s) ==
    \/ ~DigitsOk(Unsigned(Strip(s)))
    \/ DigitCount(Unsigned(Strip(s))) > MaxStrDigits

\* int(s) when it does not raise
IntValue(s) ==
    LET t == Strip(s)
        v == DigitsValue(Unsigned(t), 0)
    IN  IF HasSign(t) /\ Head(t) = 45 THEN 0 - v ELSE v

\* --------------------------------------------------------------- config
\* "30"
DefaultDays == <<51, 48>>

\* "abc", "", "1.5", "+", "1_",
\* "-1", tab U+0661 (Arabic-Indic one) space, "1000000"
DaysInputs ==
    { <<97, 98, 99>>, <<>>, <<49, 46, 53>>, <<43>>, <<49, 95>>,
      <<45, 49>>, <<9, 1633, 32>>, <<49, 48, 48, 48, 48, 48, 48>> }

RuleSeqs ==
    { r \in UNION { [1..n -> [sender : Senders, label : LabelNames]] : n \in 0..MaxRules } :
        \A i, j \in 1..Len(r) : i # j => r[i].sender # r[j].sender }

\* config.get("SENDER_LABELS", {})
sender_labels_of(cfg) ==
    IF cfg.SENDER_LABELS = None THEN <<>> ELSE cfg.SENDER_LABELS[1]

\* config.get("DAYS_TO_LOOK_BACK", {}).get("Days", "30")
days_to_look_back_str_of(cfg) ==
    IF cfg.Days = None THEN DefaultDays ELSE cfg.Days[1]

\* ------------------------------------------------------- token store
\* google.oauth2.credentials.Credentials: valid = has a token and not expired
CredsSet == [token : BOOLEAN, expired : BOOLEAN, refresh_token : BOOLEAN]
Valid(creds) == creds.token /\ ~creds.expired
\* what a successful refresh or a completed OAuth flow yields
FreshCreds == [token |-> TRUE, expired |-> FALSE, refresh_token |-> TRUE]

\* `not creds or not creds.valid`
NeedsNewCreds(stored) == stored = None \/ ~Valid(stored[1])

\* `creds and creds.expired and creds.refresh_token`
WillRefresh(stored) ==
    stored # None /\ stored[1].expired /\ stored[1].refresh_token

\* ------------------------------------------------------ remote service
\* label_map = {label["name"]: label["id"] for label in labels["labels"]}
\* (a later entry of the same name overwrites an earlier one)
LabelMapHas_Never(labels, name) == FALSE

LabelMapHas(labels, name) == \E i \in 1..Len(labels) : labels[i].name = name

LabelMapGet(labels, name) ==
    LET last == CHOOSE i \in 1..Len(labels) :
                  /\ labels[i].name = name
                  /\ \A j \in (i + 1)..Len(labels) : labels[j].name # name
    IN  labels[last].id

\* users.labels.create: the service appends a label under a fresh id
RemoteCreate(labels, name) ==
    Append(labels, [id |-> UserLabelId(Len(labels) + 1), name |-> name])

\* datetime.now().toordinal(), with the clock at 2026-10-31
Today == 739920
\* date.min.toordinal(), date.max.toordinal()
MinOrdinal == 1
MaxOrdinal == 3652059

\* datetime.now() - timedelta(days=days_to_look_back), as a calendar day
DateNDaysAgo(days) == Today - days

\* the subtraction raises OverflowError: the date leaves years 1..9999
DateRaises(days) ==
    DateNDaysAgo(days) < MinOrdinal \/ DateNDaysAgo(days) > MaxOrdinal

\* the query "from:{sender} after:{date}" as the service evaluates it
Matches(mb, m, sender, cutoff) == mb[m].from = sender /\ mb[m].day >= cutoff

RECURSIVE Ascending(_)
Ascending(S) ==
    IF S = {} THEN <<>>
    ELSE LET lo == CHOOSE x \in S : \A y \in S : x <= y
         IN  <<lo>> \o Ascending(S \ {lo})

\* every message the query matches, newest first
AllMatches(mb, sender, cutoff) ==
    Ascending({m \in Msgs : Matches(mb, m, sender, cutoff)})

\* results.get("messages", []) of one users.messages.list call: the first
\* page only; a nextPageToken in the response is not read
ListedMessages(mb, sender, cutoff) ==
    LET all == AllMatches(mb, sender, cutoff)
    IN  SubSeq(all, 1, Min(PageSize, Len(all)))

ModifyBody_DropsInbox(id) == [addLabelIds |-> {id}, removeLabelIds |-> {INBOX}]

ModifyBody_WrongLabel(id) == [addLabelIds |-> {INBOX}, removeLabelIds |-> {}]

\* body of the users.messages.modify request
ModifyBody(id) == [addLabelIds |-> {id}, removeLabelIds |-> {}]

\* users.messages.modify as the service applies it
RemoteModify(labelIds, body) ==
    (labelIds \ body.removeLabelIds) \cup body.addLabelIds

NeedsLabel_Always(id, existing) == TRUE

\* `if label_id not in existing_labels`
NeedsLabel(id, existing) == id \notin existing

\* ---------------------------------------------------------------- state
VARIABLES
    config,            \* parsed config.json
    tokenFile,         \* creds\token.json
    remoteLabels,      \* the remote label namespace, in list order
    mailbox,           \* remote messages: from, day, labelIds
    pc,                \* where the script is
    days_to_look_back, \* main's parsed lookback
    ruleIdx,           \* position in sender_label_map.items()
    label_id,          \* label_emails local
    messages,          \* label_emails local: the listed page
    msgIdx,            \* position in messages
    existing_labels,   \* label_emails local: labelIds fetched for the message
    run,               \* which invocation of the script this is
    calls,             \* remote calls issued by this invocation so far, in order
    authLog,           \* what authenticate_gmail did in this invocation
    outcome            \* per finished invocation: how it ended, what it changed

vars == <<config, tokenFile, remoteLabels, mailbox, pc, days_to_look_back,
          ruleIdx, label_id, messages, msgIdx, existing_labels, run, calls,
          authLog, outcome>>

remote == <<remoteLabels, mailbox>>
locals == <<label_id, messages, msgIdx, existing_labels>>

Rules == sender_labels_of(config)

NoAuth == [invoked |-> FALSE, refresh |-> "none", flow |-> "none",
           wrote |-> FALSE, raised |-> FALSE]

Call(op, ok, rule, name, msg, id, fetched) ==
    [op |-> op, ok |-> ok, rule |-> rule, name |-> name, msg |-> msg,
     label |-> id, fetched |-> fetched]

Configs ==
    [SENDER_LABELS : {None} \cup {Some(r) : r \in RuleSeqs},
     Days : {None} \cup {Some(d) : d \in DaysInputs}]

\* the remote label namespace before the first invocation
InitLabelSeqs ==
    { <<>>,
      <<[id |-> UserLabelId(1), name |-> "Alerts"]>> }

\* the remote mailbox before the first invocation: every message in the
\* inbox, those of `tagged` also under the first user label
InitMailbox(from, tagged, labels) ==
    [m \in Msgs |->
       [from |-> from[m],
        day |-> Today - (m - 1),
        labelIds |-> {INBOX} \cup
                     (IF m \in tagged /\ labels # <<>> THEN {labels[1].id} ELSE {})]]

InitScript ==
    /\ pc = "main"
    /\ days_to_look_back = 0
    /\ ruleIdx = 0
    /\ label_id = EmptyId
    /\ messages = <<>>
    /\ msgIdx = 0
    /\ existing_labels = {}
    /\ run = 1
    /\ calls = <<>>
    /\ authLog = NoAuth
    /\ outcome = <<>>

\* any configuration, any mailbox; no token stored yet
Init ==
    /\ config \in Configs
    /\ tokenFile = None
    /\ remoteLabels \in InitLabelSeqs
    /\ \E from \in [Msgs -> Senders] :
       \E tagged \in (IF remoteLabels = <<>> THEN {{}} ELSE SUBSET Msgs) :
          mailbox = InitMailbox(from, tagged, remoteLabels)
    /\ InitScript

\* any configuration, any token store; one fixed mailbox
InitAuth ==
    /\ config \in Configs
    /\ tokenFile \in {None} \cup {Some(c) : c \in CredsSet}
    /\ remoteLabels = <<>>
    /\ mailbox = InitMailbox([m \in Msgs |-> "a@x"], {}, remoteLabels)
    /\ InitScript

\* ------------------------------------------------------- control flow
Goto(p, i, id, msgs, k, ex) ==
    /\ pc' = p
    /\ ruleIdx' = i
    /\ label_id' = id
    /\ messages' = msgs
    /\ msgIdx' = k
    /\ existing_labels' = ex

\* main returns (or an exception leaves it): the invocation is over
Finish(p, how) ==
    /\ Goto(p, 0, EmptyId, <<>>, 0, {})
    /\ outcome' = Append(outcome,
           [how |-> how,
            created |-> \E i \in 1..Len(calls') :
                           calls'[i].op = "labels.create" /\ calls'[i].ok,
            modified |-> \E i \in 1..Len(calls') :
                            calls'[i].op = "messages.modify" /\ calls'[i].ok])

\* `except HttpError as error: logging.error(...)`: the one handler of
\* label_emails encloses the whole loop over the rules, so the function
\* returns from there
CaughtHttpError == Finish("returned", "http_error")

\* the next iteration of `for sender_email, label_name in ...items()`
NextRule ==
    IF ruleIdx < Len(Rules)
    THEN Goto("resolve", ruleIdx + 1, EmptyId, <<>>, 0, {}) /\ UNCHANGED outcome
    ELSE Finish("returned", "completed")

\* the next iteration of `for message in messages`
NextMessage ==
    IF msgIdx < Len(messages)
    THEN Goto("get", ruleIdx, label_id, messages, msgIdx + 1, {}) /\ UNCHANGED outcome
    ELSE NextRule

\* `if not label_id: continue`, else on to the search
AfterResolve(id) ==
    IF id = EmptyId THEN NextRule
    ELSE Goto("search", ruleIdx, id, <<>>, 0, {}) /\ UNCHANGED outcome

\* ------------------------------------------------------------------ main
\* main(), up to the call of authenticate_gmail
Main ==
    /\ pc = "main"
    /\ UNCHANGED <<config, tokenFile, remote, run, calls, authLog>>
    /\ IF Rules = <<>>
       THEN Finish("returned", "no_rules") /\ UNCHANGED days_to_look_back
       ELSE IF IntRaises(days_to_look_back_str_of(config))
       THEN Finish("returned", "bad_days") /\ UNCHANGED days_to_look_back
       ELSE /\ days_to_look_back' = IntValue(days_to_look_back_str_of(config))
            /\ Goto("auth", 0, EmptyId, <<>>, 0, {})
            /\ UNCHANGED outcome

\* ---------------------------------------------------- authenticate_gmail
\* what authenticate_gmail does with the stored credential, given how the
\* refresh and the interactive flow would end
AuthResult(stored, refresh_ok, flow_ok) ==
    IF NeedsNewCreds(stored)
    THEN IF WillRefresh(stored)
         THEN IF refresh_ok
              THEN [store |-> Some(FreshCreds),
                    log |-> [invoked |-> TRUE, refresh |-> "ok", flow |-> "none",
                             wrote |-> TRUE, raised |-> FALSE]]
              ELSE [store |-> stored,
                    log |-> [invoked |-> TRUE, refresh |-> "failed", flow |-> "none",
                             wrote |-> FALSE, raised |-> TRUE]]
         ELSE IF flow_ok
              THEN [store |-> Some(FreshCreds),
                    log |-> [invoked |-> TRUE, refresh |-> "none", flow |-> "ok",
                             wrote |-> TRUE, raised |-> FALSE]]
              ELSE [store |-> stored,
                    log |-> [invoked |-> TRUE, refresh |-> "none", flow |-> "failed",
                             wrote |-> FALSE, raised |-> TRUE]]
    ELSE [store |-> stored,
          log |-> [invoked |-> TRUE, refresh |-> "none", flow |-> "none",
                   wrote |-> FALSE, raised |-> FALSE]]

Authenticate ==
    /\ pc = "auth"
    /\ UNCHANGED <<config, remote, days_to_look_back, run, calls>>
    /\ \E refresh_ok, flow_ok \in BOOLEAN :
          LET r == AuthResult(tokenFile, refresh_ok, flow_ok)
          IN  /\ tokenFile' = r.store
              /\ authLog' = r.log
              /\ IF r.log.raised
                 THEN Finish("raised", "auth_error")
                 ELSE Goto("resolve", 1, EmptyId, <<>>, 0, {}) /\ UNCHANGED outcome

\* ---------------------------------------------------------- label_emails
\* get_or_create_label: service.users().labels().list(...).execute()
ListLabels ==
    /\ pc = "resolve"
    /\ \E ok \in BOOLEAN :
          LET name == Rules[ruleIdx].label
          IN  /\ calls' = Append(calls,
                     Call("labels.list", ok, ruleIdx, name, 0, EmptyId, {}))
              /\ IF ~ok THEN CaughtHttpError
                 ELSE IF LabelMapHas(remoteLabels, name)
                 THEN AfterResolve(LabelMapGet(remoteLabels, name))
                 ELSE Goto("create", ruleIdx, EmptyId, <<>>, 0, {}) /\ UNCHANGED outcome
    /\ UNCHANGED <<config, tokenFile, remote, days_to_look_back, run, authLog>>

\* get_or_create_label: service.users().labels().create(...).execute()
CreateLabel ==
    /\ pc = "create"
    /\ \E ok \in BOOLEAN :
          LET name  == Rules[ruleIdx].label
              after == RemoteCreate(remoteLabels, name)
              newId == after[Len(after)].id
          IN  /\ calls' = Append(calls,
                     Call("labels.create", ok, ruleIdx, name, 0,
                          IF ok THEN newId ELSE EmptyId, {}))
              /\ IF ok
                 THEN remoteLabels' = after /\ AfterResolve(newId)
                 ELSE UNCHANGED remoteLabels /\ CaughtHttpError
    /\ UNCHANGED <<config, tokenFile, mailbox, days_to_look_back, run, authLog>>

\* date_n_days_ago, uncaught when it overflows; then
\* service.users().messages().list(userId="me", q=query).execute()
ListMessages ==
    /\ pc = "search"
    /\ \E ok \in BOOLEAN :
          LET rule == Rules[ruleIdx]
              page == ListedMessages(mailbox, rule.sender,
                                     DateNDaysAgo(days_to_look_back))
          IN  IF DateRaises(days_to_look_back)
              THEN /\ calls' = calls
                   /\ Finish("raised", "overflow_error")
              ELSE /\ calls' = Append(calls,
                          Call("messages.list", ok, ruleIdx, rule.label, 0, label_id, {}))
                   /\ IF ~ok THEN CaughtHttpError
                      ELSE IF page = <<>> THEN NextRule
                      ELSE Goto("get", ruleIdx, label_id, page, 1, {}) /\ UNCHANGED outcome
    /\ UNCHANGED <<config, tokenFile, remote, days_to_look_back, run, authLog>>

\* service.users().messages().get(..., format="metadata").execute()
GetMessage ==
    /\ pc = "get"
    /\ \E ok \in BOOLEAN :
          LET m       == messages[msgIdx]
              fetched == mailbox[m].labelIds
          IN  /\ calls' = Append(calls,
                     Call("messages.get", ok, ruleIdx, Rules[ruleIdx].label, m,
                          label_id, IF ok THEN fetched ELSE {}))
              /\ IF ~ok THEN CaughtHttpError
                 ELSE IF NeedsLabel(label_id, fetched)
                 THEN Goto("modify", ruleIdx, label_id, messages, msgIdx, fetched)
                      /\ UNCHANGED outcome
                 ELSE NextMessage
    /\ UNCHANGED <<config, tokenFile, remote, days_to_look_back, run, authLog>>

\* service.users().messages().modify(..., body={"addLabelIds": [label_id]})
ModifyMessage ==
    /\ pc = "modify"
    /\ \E ok \in BOOLEAN :
          LET m    == messages[msgIdx]
              body == ModifyBody(label_id)
          IN  /\ calls' = Append(calls,
                     [Call("messages.modify", ok, ruleIdx, Rules[ruleIdx].label, m,
                           label_id, existing_labels)
                      EXCEPT !.label = CHOOSE id \in body.addLabelIds : TRUE])
              /\ IF ok
                 THEN /\ mailbox' = [mailbox EXCEPT ![m].labelIds =
                                        RemoteModify(@, body)]
                      /\ NextMessage
                 ELSE UNCHANGED mailbox /\ CaughtHttpError
    /\ UNCHANGED <<config, tokenFile, remoteLabels, days_to_look_back, run, authLog>>

\* the script is started again after an invocation has ended
RunAgain ==
    /\ pc \in {"returned", "raised"}
    /\ run < MaxRuns
    /\ run' = run + 1
    /\ pc' = "main"
    /\ calls' = <<>>
    /\ authLog' = NoAuth
    /\ days_to_look_back' = 0
    /\ UNCHANGED <<config, tokenFile, remote, ruleIdx, locals, outcome>>

Next ==
    \/ Main
    \/ Authenticate
    \/ ListLabels
    \/ CreateLabel
    \/ ListMessages
    \/ GetMessage
    \/ ModifyMessage
    \/ RunAgain

Spec == Init /\ [][Next]_vars

\* main and authenticate_gmail alone, over every state of the token store
NextAuth ==
    \/ Main
    \/ Authenticate
    \/ RunAgain

SpecAuth == InitAuth /\ [][NextAuth]_vars

\* =============================================================== claims
Ops(log, op) == {i \in 1..Len(log) : log[i].op = op}

\* the invocation that is running, or that ended last, is over
RunOver == pc \in {"returned", "raised"}

\* the invocation just ended with label_emails having run through every rule
RunCompleted == pc = "returned" /\ outcome[run].how = "completed"

\* the page label_emails walks for rule i
PageOf(i) ==
    ListedMessages(mailbox, Rules[i].sender, DateNDaysAgo(days_to_look_back))

\* ------------------------------------------------------------------ C1
\* C1: once a message's fetched labelIds contain the label id resolved for
\* the rule, the invocation issues no modify call adding that id to that
\* message for that rule.
C1_NoRelabel ==
    \A i \in Ops(calls, "messages.get") :
        (calls[i].ok /\ calls[i].label \in calls[i].fetched) =>
            ~\E j \in Ops(calls, "messages.modify") :
                /\ j > i
                /\ calls[j].rule = calls[i].rule
                /\ calls[j].msg = calls[i].msg
                /\ calls[j].label = calls[i].label

\* a finished invocation that fetched a message already carrying the label
C1_Witness ==
    /\ RunCompleted
    /\ \E i \in Ops(calls, "messages.get") :
          calls[i].ok /\ calls[i].label \in calls[i].fetched

\* ------------------------------------------------------------------ C2
\* C2 (as claimed): a failed list-labels, create-label or list-messages call
\* of one rule leaves every later rule processed: its labels are listed too.
C2_FailureAbortsOnlyThatRule ==
    RunOver =>
        \A i \in 1..Len(calls) :
            (~calls[i].ok /\ calls[i].op \in {"labels.list", "labels.create", "messages.list"}) =>
                \A r \in (calls[i].rule + 1)..Len(Rules) :
                    \E j \in Ops(calls, "labels.list") : calls[j].rule = r

\* ------------------------------------------------------------------ C3
\* C3 (as claimed): a failed get or modify call for one message leaves every
\* other message of the rule's page fetched.
C3_FailureAffectsOnlyThatMessage ==
    RunOver =>
        \A i \in 1..Len(calls) :
            (~calls[i].ok /\ calls[i].op \in {"messages.get", "messages.modify"}) =>
                \A k \in 1..Len(PageOf(calls[i].rule)) :
                    \E j \in Ops(calls, "messages.get") :
                        /\ calls[j].rule = calls[i].rule
                        /\ calls[j].msg = PageOf(calls[i].rule)[k]

\* ------------------------------------------------------------------ C4
\* C4: when an invocation and the one before it both ran through every rule
\* with no remote failure, the later one issued no modify call and no
\* create-label call, and every message it fetched already carried the label.
C4_SecondRunIdle ==
    (RunCompleted /\ run >= 2 /\ outcome[run - 1].how = "completed") =>
        /\ Ops(calls, "messages.modify") = {}
        /\ Ops(calls, "labels.create") = {}
        /\ \A i \in Ops(calls, "messages.get") : calls[i].label \in calls[i].fetched

\* a first invocation that created a label and labelled a message, then a
\* second one that fetched messages
C4_Witness ==
    /\ RunCompleted
    /\ run = 2
    /\ outcome[1].how = "completed"
    /\ outcome[1].created
    /\ outcome[1].modified
    /\ Ops(calls, "messages.get") # {}

\* ------------------------------------------------------------------ C5
\* C5 (as claimed): after an invocation with no remote failure, every message
\* a rule's query matches carries the rule's label, whichever result page
\* the service returns it on.
C5_EveryMatchLabelled ==
    RunCompleted =>
        \A i \in 1..Len(Rules) :
            \A m \in Msgs :
                Matches(mailbox, m, Rules[i].sender, DateNDaysAgo(days_to_look_back)) =>
                    /\ LabelMapHas(remoteLabels, Rules[i].label)
                    /\ LabelMapGet(remoteLabels, Rules[i].label) \in mailbox[m].labelIds

\* ------------------------------------------------------------------ C6
\* the lookback string denotes a non-negative integer
IsNonNegativeInteger(str) == ~IntRaises(str) /\ IntValue(str) >= 0

\* C6 (as claimed): with an empty or missing sender-label map, or a lookback
\* value that is not a non-negative integer, no credential is obtained and
\* no remote call is issued.
C6_InvalidConfigFailsFast ==
    (Rules = <<>> \/ ~IsNonNegativeInteger(days_to_look_back_str_of(config))) =>
        (~authLog.invoked /\ calls = <<>>)

\* ------------------------------------------------------------------ C7
\* C7 (as claimed): one invocation issues list-labels at most once, and
\* resolves each label name remotely at most once.
C7_LabelsListedOnce ==
    /\ Cardinality(Ops(calls, "labels.list")) <= 1
    /\ \A n \in LabelNames :
          Cardinality({i \in Ops(calls, "labels.list") : calls[i].name = n}) <= 1

\* ------------------------------------------------------------------ C8
\* C8: one invocation issues at most one create-label call per label name,
\* and the remote namespace never holds two labels of the same name.
C8_OneCreatePerName ==
    /\ \A n \in LabelNames :
          Cardinality({i \in Ops(calls, "labels.create") : calls[i].name = n}) <= 1
    /\ \A i, j \in 1..Len(remoteLabels) :
          remoteLabels[i].name = remoteLabels[j].name => i = j

\* two rules sharing a label name that did not exist remotely: resolved
\* twice, created once
C8_Witness ==
    /\ RunCompleted
    /\ Len(Rules) >= 2
    /\ Rules[1].label = Rules[2].label
    /\ \E i \in Ops(calls, "labels.create") : calls[i].ok /\ calls[i].name = Rules[1].label
    /\ Cardinality({i \in Ops(calls, "labels.list") : calls[i].name = Rules[1].label}) >= 2

\* ------------------------------------------------------------------ C9
\* C9 (as claimed): after a failed refresh authenticate_gmail runs the
\* interactive flow and persists the credential it yields; the token store
\* is written exactly when a refresh or an authorization succeeded.
C9_RefreshFailureFallsThrough ==
    /\ authLog.refresh = "failed" =>
          /\ authLog.flow # "none"
          /\ authLog.flow = "ok" => (authLog.wrote /\ ~authLog.raised)
    /\ authLog.wrote <=> (authLog.refresh = "ok" \/ authLog.flow = "ok")

\* ----------------------------------------------------------------- C10
\* C10: a step changes a message only by a modify call that adds the rule's
\* resolved label id to the message being processed, which did not carry it;
\* every other label of the message, and every other message, stays as it was.
C10_ModifyOnlyAdds ==
    [][\A m \in Msgs :
          \/ mailbox'[m] = mailbox[m]
          \/ /\ pc = "modify"
             /\ m = messages[msgIdx]
             /\ label_id \notin mailbox[m].labelIds
             /\ mailbox'[m] = [mailbox[m] EXCEPT !.labelIds = @ \cup {label_id}]]_vars

\* a message that carried the inbox label and another user label was
\* modified and carries both of them and the new one
C10_Witness ==
    \E i \in Ops(calls, "messages.modify") :
        /\ calls[i].ok
        /\ i = Len(calls)
        /\ Cardinality(calls[i].fetched) >= 2
        /\ mailbox[calls[i].msg].labelIds = calls[i].fetched \cup {calls[i].label}
        /\ calls[i].label \notin calls[i].fetched

====
